---- MODULE Spec2Model ----
(***************************************************************************)
(* Annotation-document translator (hkannoFromText / hkannoToText) and the  *)
(* dual-view line correlator (buildIndexMaps / setupLeftCursorSync) of the *)
(* hkanno editor.                                                          *)
(*                                                                         *)
(* Texts are sequences of one-character strings; "\n" separates lines.     *)
(* An optional string (string | null) is a record [isNull, str].           *)
(* A number is a record [nan, units]: units counts 10^-Scale, so decimal   *)
(* literals with up to Scale fractional digits are represented exactly.    *)
(***************************************************************************)
EXTENDS Integers, Sequences, FiniteSets, TLC

\* ------------------------------------------------------------------ bounds
MaxLines == 3          \* lines of a primary text typed into the editor
MaxModelTracks == 1    \* tracks of a model returned by loadHkanno
MaxModelAnns == 1      \* annotations per track of such a model
MaxXmlLines == 3       \* lines of a secondary (preview) text
MaxCursorLines == 2    \* lines of the primary text while the cursor listener runs
MaxCursorXml == 2      \* lines of the secondary text while the cursor listener runs
Scale == 7             \* fractional decimal digits a number is represented with
MaxInFlight == 2       \* previewHkanno calls in flight at one time
MaxSaves == 1          \* saveHkanno calls in flight at one time
MaxKeyLen == 6         \* code units of a string handed to hashDjb2
MaxCalls == 1          \* openFiles and saveCurrent calls in flight at one time
MaxOpens == 2          \* openFiles calls in flight at one time where nothing is saved
MaxTabs == 3           \* tabs in the tab list

\* -------------------------------------------------------------- characters
NULL_STR == "<NUL>"
LF == "\n"
TAB == "\t"
CR == "\r"
SP == " "

\* String.prototype.trim and the regex class \s
IsSpace(c) == c \in {SP, TAB, CR, LF}

IsDigit(c) == c \in {"0", "1", "2", "3", "4", "5", "6", "7", "8", "9"}

DigitVal(c) ==
  CASE c = "0" -> 0 [] c = "1" -> 1 [] c = "2" -> 2 [] c = "3" -> 3
    [] c = "4" -> 4 [] c = "5" -> 5 [] c = "6" -> 6 [] c = "7" -> 7
    [] c = "8" -> 8 [] c = "9" -> 9

DigitChar(d) == <<"0", "1", "2", "3", "4", "5", "6", "7", "8", "9">>[d + 1]

\* the case folding of the regex flag /i
Lower(c) ==
  CASE c = "T" -> "t" [] c = "R" -> "r" [] c = "A" -> "a" [] c = "C" -> "c"
    [] c = "K" -> "k" [] c = "N" -> "n" [] c = "M" -> "m" [] c = "E" -> "e"
    [] c = "B" -> "b" [] c = "X" -> "x" [] c = "H" -> "h" [] c = "L" -> "l"
    [] OTHER -> c

LowerStr(s) == [i \in 1..Len(s) |-> Lower(s[i])]

\* ----------------------------------------------------------------- strings
RECURSIVE TrimStart(_)
TrimStart(s) ==
  IF s = <<>> THEN s
  ELSE IF IsSpace(Head(s)) THEN TrimStart(Tail(s)) ELSE s

RECURSIVE TrimEnd(_)
TrimEnd(s) ==
  IF s = <<>> THEN s
  ELSE IF IsSpace(s[Len(s)]) THEN TrimEnd(SubSeq(s, 1, Len(s) - 1)) ELSE s

Trim(s) == TrimEnd(TrimStart(s))

StartsWith(s, p) == Len(s) >= Len(p) /\ SubSeq(s, 1, Len(p)) = p

\* the elements of a finite set of integers in ascending order
RECURSIVE Ascending(_)
Ascending(S) ==
  IF S = {} THEN <<>>
  ELSE LET m == CHOOSE x \in S : \A y \in S : x <= y
       IN <<m>> \o Ascending(S \ {m})

\* the pieces of s between consecutive cut positions
RECURSIVE PiecesBetween(_, _)
PiecesBetween(s, cuts) ==
  IF Len(cuts) < 2 THEN <<>>
  ELSE <<SubSeq(s, cuts[1] + 1, cuts[2] - 1)>> \o PiecesBetween(s, Tail(cuts))

\* String.prototype.split on every single character of seps:
\* "a  b" split on whitespace is <<"a", "", "b">>, "" is <<"">>
SplitOn(s, seps) ==
  PiecesBetween(s, Ascending({0, Len(s) + 1} \cup {i \in 1..Len(s) : s[i] \in seps}))

\* Array.prototype.join
RECURSIVE Join(_, _)
Join(pieces, sep) ==
  IF pieces = <<>> THEN <<>>
  ELSE IF Len(pieces) = 1 THEN pieces[1]
  ELSE pieces[1] \o sep \o Join(Tail(pieces), sep)

\* text.split('\n')
SplitLF(text) == SplitOn(text, {LF})

\* the pieces of a split on "\n" without the "\r" that ends a piece other than
\* the last one
RECURSIVE StripCRs(_)
StripCRs(raw) ==
  IF Len(raw) <= 1 THEN raw
  ELSE LET piece == Head(raw)
       IN <<IF piece /= <<>> /\ piece[Len(piece)] = CR
            THEN SubSeq(piece, 1, Len(piece) - 1)
            ELSE piece>> \o StripCRs(Tail(raw))

\* text.split(/\r?\n/): a "\r" directly before a "\n" belongs to the separator
SplitCRLF(text) == StripCRs(SplitOn(text, {LF}))

\* ----------------------------------------------------------------- numbers

RECURSIVE Pow10(_)
Pow10(n) == IF n = 0 THEN 1 ELSE 10 * Pow10(n - 1)

NaN == [nan |-> TRUE, units |-> 0]
Num(u) == [nan |-> FALSE, units |-> u]

RECURSIVE TakeDigits(_)
TakeDigits(s) ==
  IF s = <<>> \/ ~IsDigit(Head(s)) THEN <<>>
  ELSE <<Head(s)>> \o TakeDigits(Tail(s))

RECURSIVE IntVal(_)
IntVal(ds) ==
  IF ds = <<>> THEN 0
  ELSE 10 * IntVal(SubSeq(ds, 1, Len(ds) - 1)) + DigitVal(ds[Len(ds)])

\* value of the fraction digits in units of 10^-Scale
FracVal(ds) ==
  LET kept == IF Len(ds) > Scale THEN SubSeq(ds, 1, Scale) ELSE ds
  IN IntVal(kept) * Pow10(Scale - Len(kept))

\* parseFloat: the longest prefix that is a decimal literal
\* (sign, digits, optional point and digits); NaN when there is none.
parseFloat(s) ==
  LET t == TrimStart(s)
      neg == t /= <<>> /\ Head(t) = "-"
      body == IF t /= <<>> /\ Head(t) \in {"-", "+"} THEN Tail(t) ELSE t
      ints == TakeDigits(body)
      rest == SubSeq(body, Len(ints) + 1, Len(body))
      fracs == IF rest /= <<>> /\ Head(rest) = "." THEN TakeDigits(Tail(rest)) ELSE <<>>
      mag == IntVal(ints) * Pow10(Scale) + FracVal(fracs)
  IN IF ints = <<>> /\ fracs = <<>> THEN NaN
     ELSE Num(IF neg THEN 0 - mag ELSE mag)

RECURSIVE Digits(_)
Digits(n) ==
  IF n < 10 THEN <<DigitChar(n)>>
  ELSE Digits(n \div 10) \o <<DigitChar(n % 10)>>

\* n written with exactly w digits, zero padded on the left
RECURSIVE PadDigits(_, _)
PadDigits(n, w) ==
  IF w = 0 THEN <<>>
  ELSE PadDigits(n \div 10, w - 1) \o <<DigitChar(n % 10)>>

NaNText == <<"N", "a", "N">>

Abs(u) == IF u < 0 THEN 0 - u ELSE u

\* mutant: toFixed(5)
toFixed5(t) ==
  IF t.nan THEN NaNText
  ELSE LET step == Pow10(Scale - 5)
           n == (Abs(t.units) + step \div 2) \div step
       IN (IF t.units < 0 THEN <<"-">> ELSE <<>>)
          \o Digits(n \div Pow10(5)) \o <<".">> \o PadDigits(n % Pow10(5), 5)

\* Number.prototype.toFixed(6): the nearest multiple of 10^-6, ties upward
toFixed6(t) ==
  IF t.nan THEN NaNText
  ELSE LET step == Pow10(Scale - 6)
           n == (Abs(t.units) + step \div 2) \div step
       IN (IF t.units < 0 THEN <<"-">> ELSE <<>>)
          \o Digits(n \div Pow10(6)) \o <<".">> \o PadDigits(n % Pow10(6), 6)

RECURSIVE StripZeros(_)
StripZeros(ds) ==
  IF ds /= <<>> /\ ds[Len(ds)] = "0" THEN StripZeros(SubSeq(ds, 1, Len(ds) - 1))
  ELSE ds

\* `${number}`: the shortest decimal that reads back as the number
NumberToString(t) ==
  IF t.nan THEN NaNText
  ELSE LET a == Abs(t.units)
           fr == StripZeros(PadDigits(a % Pow10(Scale), Scale))
       IN (IF t.units < 0 THEN <<"-">> ELSE <<>>)
          \o Digits(a \div Pow10(Scale))
          \o (IF fr = <<>> THEN <<>> ELSE <<".">> \o fr)

\* ---------------------------------------------------------- document model
Null == [isNull |-> TRUE, str |-> <<>>]
Some(s) == [isNull |-> FALSE, str |-> s]

Annotation(time, text) == [time |-> time, text |-> text]
Track(name, anns) == [track_name |-> name, annotations |-> anns]

\* "trackName" / "trackname"
KwTrackName == <<"t", "r", "a", "c", "k", "N", "a", "m", "e">>
KwLower == LowerStr(KwTrackName)

\* /^trackName\s*:/i
IsHeaderLine(trimmed) ==
  /\ Len(trimmed) >= Len(KwLower)
  /\ LowerStr(SubSeq(trimmed, 1, Len(KwLower))) = KwLower
  /\ LET after == TrimStart(SubSeq(trimmed, Len(KwLower) + 1, Len(trimmed)))
     IN after /= <<>> /\ Head(after) = ":"

\* trimmed.startsWith('#')
\* mutant: no line is a comment line
IsCommentLineNever(trimmed) == FALSE

IsCommentLine(trimmed) == trimmed /= <<>> /\ Head(trimmed) = "#"

\* mutant: the header line is split on another character than the one its
\* pattern requires
HeaderPiecesSemi(trimmed) == SplitOn(trimmed, {";"})

\* trimmed.split(':')
HeaderPieces(trimmed) == SplitOn(trimmed, {":"})

\* trimmed.split(':')[1].trim(), then track_name == NULL_STR ? null : track_name
HeaderName(trimmed) ==
  LET track_name == Trim(HeaderPieces(trimmed)[2])
  IN IF track_name = <<NULL_STR>> THEN Null ELSE Some(track_name)

\* mutant: the line is split on runs of whitespace
AnnotationPartsRuns(trimmed) ==
  SelectSeq(SplitOn(trimmed, {SP, TAB, CR, LF}), LAMBDA piece : piece /= <<>>)

\* trimmed.split(/\s/)
AnnotationParts(trimmed) == SplitOn(trimmed, {SP, TAB, CR, LF})

\* const [t, ...txt] = trimmed.split(/\s/); parseFloat(t); txt.join(' ').trim()
ParseAnnotation(trimmed) ==
  LET parts == AnnotationParts(trimmed)
      t == parts[1]
      txt == Tail(parts)
      annText == Trim(Join(txt, <<SP>>))
  IN Annotation(parseFloat(t), IF annText = <<NULL_STR>> THEN Null ELSE Some(annText))

\* mutant: a track without annotations is dropped
PushPendingNonEmpty(annotation_tracks, hasCur, currentTrack) ==
  IF hasCur /\ currentTrack.annotations /= <<>>
  THEN Append(annotation_tracks, currentTrack) ELSE annotation_tracks

\* if (currentTrack) annotation_tracks.push(currentTrack)
PushPending(annotation_tracks, hasCur, currentTrack) ==
  IF hasCur THEN Append(annotation_tracks, currentTrack) ELSE annotation_tracks

\* mutant: the implicit track gets an empty name instead of null
CurrentOrDummyNamed(hasCur, currentTrack) ==
  IF hasCur THEN currentTrack ELSE Track(Some(<<>>), <<>>)

\* if (!currentTrack) currentTrack = { annotations: [], track_name: null }
CurrentOrDummy(hasCur, currentTrack) ==
  IF hasCur THEN currentTrack ELSE Track(Null, <<>>)

\* mutant: unshift instead of push
PushAnnotationFront(track, ann) ==
  Track(track.track_name, <<ann>> \o track.annotations)

\* currentTrack.annotations.push({ time, text })
PushAnnotation(track, ann) ==
  Track(track.track_name, Append(track.annotations, ann))

\* the for loop of hkannoFromText over lines[i..]; hasCur is currentTrack !== null
RECURSIVE ParseLoop(_, _, _, _, _)
ParseLoop(lines, i, annotation_tracks, hasCur, currentTrack) ==
  IF i > Len(lines)
  THEN PushPending(annotation_tracks, hasCur, currentTrack)
  ELSE LET trimmed == Trim(lines[i])
       IN IF trimmed = <<>>
          THEN ParseLoop(lines, i + 1, annotation_tracks, hasCur, currentTrack)
          ELSE IF IsHeaderLine(trimmed)
          THEN ParseLoop(lines, i + 1,
                         PushPending(annotation_tracks, hasCur, currentTrack),
                         TRUE, Track(HeaderName(trimmed), <<>>))
          ELSE IF IsCommentLine(trimmed)
          THEN ParseLoop(lines, i + 1, annotation_tracks, hasCur, currentTrack)
          ELSE ParseLoop(lines, i + 1, annotation_tracks, TRUE,
                         PushAnnotation(CurrentOrDummy(hasCur, currentTrack),
                                        ParseAnnotation(trimmed)))

hkannoFromText(text) == ParseLoop(SplitLF(text), 1, <<>>, FALSE, Track(Null, <<>>))

\* hkannoFromText raises a TypeError: the one expression of its body that can
\* is split(':')[1].trim(), when a header line splits into a single piece
ParserThrows(text) ==
  LET lines == SplitLF(text)
  IN \E i \in 1..Len(lines) :
       LET trimmed == Trim(lines[i])
       IN /\ trimmed /= <<>>
          /\ IsHeaderLine(trimmed)
          /\ Len(HeaderPieces(trimmed)) < 2

\* mutant: null is written as the empty string instead of the sentinel
EncodeFieldNoSentinel(f) == IF f.isNull THEN <<>> ELSE Trim(f.str)

\* track.track_name?.trim() ?? NULL_STR
EncodeField(f) == IF f.isNull THEN <<NULL_STR>> ELSE Trim(f.str)

HashSp == <<"#", SP>>
ColonSp == <<":", SP>>

AnnotationLine(ann) == toFixed6(ann.time) \o <<SP>> \o EncodeField(ann.text)

RECURSIVE AnnotationLines(_)
AnnotationLines(anns) ==
  IF anns = <<>> THEN <<>>
  ELSE <<AnnotationLine(Head(anns))>> \o AnnotationLines(Tail(anns))

TrackLines(track) ==
  << <<>>,
     KwTrackName \o ColonSp \o EncodeField(track.track_name),
     HashSp \o <<"n", "u", "m", "A", "n", "n", "o", "t", "a", "t", "i", "o", "n", "s">>
            \o ColonSp \o Digits(Len(track.annotations)) >>
  \o AnnotationLines(track.annotations)

RECURSIVE AllTrackLines(_)
AllTrackLines(tracks) ==
  IF tracks = <<>> THEN <<>>
  ELSE TrackLines(Head(tracks)) \o AllTrackLines(Tail(tracks))

HeaderLines(h) ==
  << HashSp \o <<"n", "u", "m", "O", "r", "i", "g", "i", "n", "a", "l",
                 "F", "r", "a", "m", "e", "s">> \o ColonSp \o Digits(h.num_original_frames),
     HashSp \o <<"d", "u", "r", "a", "t", "i", "o", "n">> \o ColonSp
            \o NumberToString(h.duration),
     HashSp \o <<"n", "u", "m", "A", "n", "n", "o", "t", "a", "t", "i", "o", "n",
                 "T", "r", "a", "c", "k", "s">> \o ColonSp
            \o Digits(Len(h.annotation_tracks)) >>

hkannoToText(h) == Join(HeaderLines(h) \o AllTrackLines(h.annotation_tracks), <<LF>>)

Hkanno(ptr, frames, duration, tracks) ==
  [ptr |-> ptr, num_original_frames |-> frames, duration |-> duration,
   annotation_tracks |-> tracks]

\* --------------------------------------------------------- line correlator
\* the literals matched in the secondary text; each is one element of a line
TagTrackName == "<hkparam name=\"trackName\">"
TagTime == "<hkparam name=\"time\">"

EmptyMap == <<>>

\* Map.prototype.set
MapSet(m, k, v) == [x \in (DOMAIN m) \cup {k} |-> IF x = k THEN v ELSE m[x]]

\* line.trim().split(/\s+/)[0]
FirstToken(line) == SplitOn(Trim(line), {SP, TAB, CR, LF})[1]

\* line.trim().startsWith('trackName')
IsLeftTrackLine(line) == StartsWith(Trim(line), KwTrackName)

\* !isNaN(parseFloat(line.trim().split(/\s+/)[0]))
IsLeftTimeLine(line) == ~parseFloat(FirstToken(line)).nan

\* /<hkparam name="trackName">/.test(line), /<hkparam name="time">/.test(line)
HasTag(line, tag) == \E p \in 1..Len(line) : line[p] = tag

\* leftLines.forEach: the 1-based numbers of the lines pushed to leftTrackLines
LeftTrackLines(leftLines) ==
  Ascending({i \in 1..Len(leftLines) : IsLeftTrackLine(leftLines[i])})

\* ... and to leftTimeLines (the else branch)
LeftTimeLines(leftLines) ==
  Ascending({i \in 1..Len(leftLines) :
               ~IsLeftTrackLine(leftLines[i]) /\ IsLeftTimeLine(leftLines[i])})

\* xmlLines.forEach: the numbers pushed to rightTrackLines
RightTrackLines(xmlLines) ==
  Ascending({i \in 1..Len(xmlLines) : HasTag(xmlLines[i], TagTrackName)})

\* ... and to rightTimeLines (the else branch)
RightTimeLines(xmlLines) ==
  Ascending({i \in 1..Len(xmlLines) :
               ~HasTag(xmlLines[i], TagTrackName) /\ HasTag(xmlLines[i], TagTime)})

Min(a, b) == IF a < b THEN a ELSE b

\* mutant: the pairing starts one occurrence late on the secondary side
RECURSIVE PairLoopShifted(_, _, _, _, _)
PairLoopShifted(m, lefts, rights, i, count) ==
  IF i >= count THEN m
  ELSE PairLoopShifted(MapSet(m, lefts[i + 1], rights[Min(i + 2, Len(rights))]),
                       lefts, rights, i + 1, count)

\* for (let i = 0; i < count; i++) map.set(lefts[i], rights[i])
RECURSIVE PairLoop(_, _, _, _, _)
PairLoop(m, lefts, rights, i, count) ==
  IF i >= count THEN m
  ELSE PairLoop(MapSet(m, lefts[i + 1], rights[i + 1]), lefts, rights, i + 1, count)

\* mutant: the time map is paired from the list of the header lines
buildIndexMapsSameLines(leftText, xmlText) ==
  LET leftLines == SplitCRLF(leftText)
      xmlLines == SplitCRLF(xmlText)
      leftTrackLines == LeftTrackLines(leftLines)
      rightTrackLines == RightTrackLines(xmlLines)
      rightTimeLines == RightTimeLines(xmlLines)
      minTrackCount == Min(Len(leftTrackLines), Len(rightTrackLines))
      minTimeCount == Min(Len(leftTrackLines), Len(rightTimeLines))
  IN [trackMap |-> PairLoop(EmptyMap, leftTrackLines, rightTrackLines, 0, minTrackCount),
      timeMap |-> PairLoop(EmptyMap, leftTrackLines, rightTimeLines, 0, minTimeCount)]

buildIndexMaps(leftText, xmlText) ==
  LET leftLines == SplitCRLF(leftText)
      xmlLines == SplitCRLF(xmlText)
      leftTrackLines == LeftTrackLines(leftLines)
      leftTimeLines == LeftTimeLines(leftLines)
      rightTrackLines == RightTrackLines(xmlLines)
      rightTimeLines == RightTimeLines(xmlLines)
      minTrackCount == Min(Len(leftTrackLines), Len(rightTrackLines))
      minTimeCount == Min(Len(leftTimeLines), Len(rightTimeLines))
  IN [trackMap |-> PairLoop(EmptyMap, leftTrackLines, rightTrackLines, 0, minTrackCount),
      timeMap |-> PairLoop(EmptyMap, leftTimeLines, rightTimeLines, 0, minTimeCount)]

\* ------------------------------------------------------------ cursor sync
\* model.getLineContent(lineNum)
GetLineContent(editorText, lineNum) == SplitCRLF(editorText)[lineNum]

\* trackNameRegex = /^\s*trackName\s*:?\s*(.+)?$/i
MatchesTrackNameRegex(line) ==
  LET s0 == TrimStart(line)
  IN /\ Len(s0) >= Len(KwLower)
     /\ LowerStr(SubSeq(s0, 1, Len(KwLower))) = KwLower
     /\ LET s1 == TrimStart(SubSeq(s0, Len(KwLower) + 1, Len(s0)))
            s2 == IF s1 /= <<>> /\ Head(s1) = ":" THEN Tail(s1) ELSE s1
        IN \A p \in 1..Len(s2) : s2[p] \notin {CR, LF}

RevealLineInCenter(target) == [op |-> "revealLineInCenter", lineNumber |-> target, column |-> 0]
SetPosition(target, col) == [op |-> "setPosition", lineNumber |-> target, column |-> col]

\* const target = map.get(lineNum); if (target) { reveal; setPosition }
JumpCalls(m, lineNum) ==
  IF lineNum \in DOMAIN m /\ m[lineNum] /= 0
  THEN <<RevealLineInCenter(m[lineNum]), SetPosition(m[lineNum], 1)>>
  ELSE <<>>

\* mutant: the trackName branch falls through to the time branch
OnCursorFallThrough(hasRight, editorText, lineNum, tMap, tmMap) ==
  IF ~hasRight THEN <<>>
  ELSE LET line == Trim(GetLineContent(editorText, lineNum))
       IN IF MatchesTrackNameRegex(line) /\ JumpCalls(tMap, lineNum) /= <<>>
          THEN JumpCalls(tMap, lineNum)
          ELSE IF MatchesTrackNameRegex(line) \/ ~parseFloat(FirstToken(line)).nan
          THEN JumpCalls(tmMap, lineNum)
          ELSE <<>>

\* the listener of editor.onDidChangeCursorPosition: the calls made on the
\* right editor for a cursor move to lineNum
OnCursorPosition(hasRight, editorText, lineNum, tMap, tmMap) ==
  IF ~hasRight THEN <<>>
  ELSE LET line == Trim(GetLineContent(editorText, lineNum))
       IN IF MatchesTrackNameRegex(line)
          THEN JumpCalls(tMap, lineNum)
          ELSE IF ~parseFloat(FirstToken(line)).nan
          THEN JumpCalls(tmMap, lineNum)
          ELSE <<>>

\* -------------------------------------------------------------- hashDjb2
\* 2^16: a 32-bit integer is held as two halves, Wide(hi, lo)
W16 == 65536

\* ToInt32: the low 32 bits, read as a signed integer
ToInt32(w) ==
  LET h == w.hi % W16
  IN [hi |-> IF h >= W16 \div 2 THEN h - W16 ELSE h, lo |-> w.lo]

\* mutant: the hash is returned as the signed integer it is
ToUint32Signed(w) == w

\* hash >>> 0 (ToUint32): the low 32 bits, read as an unsigned integer
ToUint32(w) == [hi |-> w.hi % W16, lo |-> w.lo]

\* hash << 5
ShiftLeft5(w) ==
  LET x == ToInt32(w)
      low == x.lo * 32
  IN ToInt32([hi |-> x.hi * 32 + low \div W16, lo |-> low % W16])

\* a + b on numbers: no wrap-around
Plus(a, b) ==
  [hi |-> a.hi + b.hi + (a.lo + b.lo) \div W16, lo |-> (a.lo + b.lo) % W16]

\* the exclusive or of two integers of 0..65535: the bits of weight p and above
RECURSIVE XorFrom(_, _, _)
XorFrom(a, b, p) ==
  IF p >= W16 THEN 0
  ELSE p * (((a \div p) + (b \div p)) % 2) + XorFrom(a, b, 2 * p)

Xor16(a, b) == XorFrom(a, b, 1)

\* a ^ b: both operands go through ToInt32, the result is a signed integer
BitXor(a, b) ==
  LET x == ToInt32(a)
      y == ToInt32(b)
  IN ToInt32([hi |-> Xor16(x.hi % W16, y.hi % W16), lo |-> Xor16(x.lo, y.lo)])

\* key.charCodeAt(i): key is held as its sequence of UTF-16 code units
charCodeAt(k, i) == [hi |-> 0, lo |-> k[i + 1]]

\* ((hash << 5) + hash) ^ key.charCodeAt(i)
HashIteration(h, k, i) == BitXor(Plus(ShiftLeft5(h), h), charCodeAt(k, i))

\* ------------------------------------------------------------------- state
VARIABLES
  text,            \* tab.text: the primary text handed to hkannoFromText
  hdr,             \* tab.ptr, tab.num_original_frames, tab.duration
  tracks,          \* annotation_tracks of the parsed or loaded model
  out,             \* the text written by hkannoToText
  tracks2,         \* hkannoFromText of the written text
  pc,              \* position in the pipeline the specification runs
  leftText,        \* content of the left (primary) editor
  xmlText,         \* the secondary text handed to updateBaseLine
  trackLineMap,    \* trackLineMapRef.current
  timeLineMap,     \* timeLineMapRef.current
  leftRegistered,  \* registerLeft has run: the cursor listener is installed
  rightRegistered, \* rightEditorRef.current is not null
  event,           \* what the last step was, NoEvent where it is not recorded
  rightCalls,      \* the calls that step made on the right editor
  tab,             \* tabs[active]: text, stored hkanno and dirty flag of the tab
  previews,        \* previewHkanno calls in flight, in the order they were issued
  saves,           \* saveHkanno calls in flight, in the order they were issued
  errMsg,          \* errMsg of SplitEditors (null or the message of a failed preview)
  baseLine,        \* the arguments of the last updateBaseLine call
  key,             \* the string handed to hashDjb2, as its UTF-16 code units
  hash,            \* hash of hashDjb2, and the number it returned
  hashI,           \* i of hashDjb2: the code units consumed
  tabs,            \* tabs of useHkannoEditor: the open files, in tab order
  active,          \* active of useHkannoEditor: the index of the selected tab
  opens            \* openFiles calls in flight: the paths still to load, tabs.length of the closure

varsDoc == <<text, hdr, tracks, out, tracks2>>
varsSync ==
  <<leftText, xmlText, trackLineMap, timeLineMap, leftRegistered, rightRegistered,
    event, rightCalls>>
varsMount ==
  <<leftText, xmlText, trackLineMap, timeLineMap, leftRegistered, rightRegistered,
    rightCalls>>
varsTab == <<tab, previews, saves, errMsg, baseLine>>
varsHash == <<key, hash, hashI>>
varsPage == <<tabs, active, opens>>
vars == <<text, hdr, tracks, out, tracks2, pc, leftText, xmlText, trackLineMap,
          timeLineMap, leftRegistered, rightRegistered, event, rightCalls,
          tab, previews, saves, errMsg, baseLine, key, hash, hashI, tabs, active, opens>>

NoEvent == [kind |-> "none", lineNumber |-> 0]

\* no document in the pipeline
DocIdle ==
  /\ text = <<>>
  /\ hdr = [ptr |-> "", num_original_frames |-> 0, duration |-> Num(0)]
  /\ tracks = <<>>
  /\ out = <<>>
  /\ tracks2 = <<>>

\* no editor mounted
SyncIdle ==
  /\ leftText = <<>>
  /\ xmlText = <<>>
  /\ trackLineMap = EmptyMap
  /\ timeLineMap = EmptyMap
  /\ leftRegistered = FALSE
  /\ rightRegistered = FALSE
  /\ event = NoEvent
  /\ rightCalls = <<>>

\* no tab open
NoTab ==
  [text |-> <<>>, hdr |-> [ptr |-> "", num_original_frames |-> 0, duration |-> Num(0)],
   hkanno |-> <<>>, dirty |-> FALSE, cursorPos |-> 0]
NoBaseLine == [called |-> FALSE, leftText |-> <<>>, xmlText |-> <<>>, xmlOf |-> <<>>]

TabIdle ==
  /\ tab = NoTab
  /\ previews = <<>>
  /\ saves = <<>>
  /\ errMsg = Null
  /\ baseLine = NoBaseLine

\* a number of up to 48 bits, hi * 2^16 + lo with lo in 0..65535; hi is negative
\* for a negative number
Wide(hi, lo) == [hi |-> hi, lo |-> lo]

\* no string hashed
HashIdle ==
  /\ key = <<>>
  /\ hash = Wide(0, 0)
  /\ hashI = 0

\* the page not mounted
PageIdle ==
  /\ tabs = <<>>
  /\ active = 0
  /\ opens = <<>>

\* ------------------------------------------------------------------ inputs
UpperKw == <<"T", "R", "A", "C", "K", "N", "A", "M", "E">>

LineBlank == <<SP>>
LineComment ==
  <<"#", SP, "n", "u", "m", "A", "n", "n", "o", "t", "a", "t", "i", "o", "n", "s", ":",
    SP, "9">>
LineHeaderA == KwTrackName \o <<":", SP, "A">>
LineHeaderNull == UpperKw \o <<SP, ":", TAB, NULL_STR>>
LineHeaderEmpty == KwTrackName \o <<":">>
LineHeaderColon == KwTrackName \o <<":", SP, NULL_STR, ":", "B">>
LineAnn == <<"0", ".", "5", SP, "a">>
LineAnnLong ==
  <<SP, "0", ".", "1", "2", "3", "4", "5", "6", "7", TAB, TAB, "a", SP, SP, "b", TAB,
    "c", SP>>
LineAnnNull == <<"1", SP, SP, NULL_STR>>
LineAnnBad == <<"x">>

InputLines ==
  {LineBlank, LineComment, LineHeaderA, LineHeaderNull, LineHeaderEmpty,
   LineHeaderColon, LineAnn, LineAnnLong, LineAnnNull, LineAnnBad}

SeqsUpTo(S, n) == UNION {[1..k -> S] : k \in 0..n}

InputTexts == {Join(ls, <<LF>>) : ls \in SeqsUpTo(InputLines, MaxLines)}

\* ptr, num_original_frames and duration of a tab under edit
EditorHdr == [ptr |-> "#0003", num_original_frames |-> 38, duration |-> Num(15000000)]

HdrChoices ==
  {EditorHdr,
   [ptr |-> "#0001", num_original_frames |-> 0, duration |-> Num(0)]}

\* values a model returned by loadHkanno can hold
ModelNames == {Null, Some(<<"A">>), Some(<<SP, "A">>), Some(<<"A", ":", "B">>)}
ModelTexts == {Null, Some(<<"a">>), Some(<<"a", TAB, "b">>)}
ModelTimes == {Num(1234567)}
ModelAnnotations == {Annotation(t, x) : t \in ModelTimes, x \in ModelTexts}
ModelTracks ==
  {Track(n, as) : n \in ModelNames, as \in SeqsUpTo(ModelAnnotations, MaxModelAnns)}
LoadedModels == SeqsUpTo(ModelTracks, MaxModelTracks)

\* ----------------------------------------------------------------- actions
\* the editor holds a text typed by the user
InitText ==
  /\ pc = "text"
  /\ text \in InputTexts
  /\ hdr \in HdrChoices
  /\ tracks = <<>>
  /\ out = <<>>
  /\ tracks2 = <<>>
  /\ SyncIdle
  /\ TabIdle
  /\ HashIdle
  /\ PageIdle

\* loadHkanno returned a model
InitLoaded ==
  /\ pc = "loaded"
  /\ text = <<>>
  /\ hdr \in HdrChoices
  /\ tracks \in LoadedModels
  /\ out = <<>>
  /\ tracks2 = <<>>
  /\ SyncIdle
  /\ TabIdle
  /\ HashIdle
  /\ PageIdle

Init == InitText \/ InitLoaded

\* annotation_tracks: hkannoFromText(tab.text)
FromText ==
  /\ pc = "text"
  /\ LET threw == ParserThrows(text)
     IN /\ tracks' = IF threw THEN <<>> ELSE hkannoFromText(text)
        /\ pc' = IF threw THEN "threw" ELSE "parsed"
  /\ UNCHANGED <<varsHash, varsPage, varsTab, text, hdr, out, tracks2, varsSync>>

\* hkannoToText of the parsed or loaded model
ToText ==
  /\ pc \in {"parsed", "loaded"}
  /\ out' = hkannoToText(Hkanno(hdr.ptr, hdr.num_original_frames, hdr.duration, tracks))
  /\ pc' = IF pc = "parsed" THEN "written" ELSE "opened"
  /\ UNCHANGED <<varsHash, varsPage, varsTab, text, hdr, tracks, tracks2, varsSync>>

\* hkannoFromText of the written text
Reparse ==
  /\ pc \in {"written", "opened"}
  /\ LET threw == ParserThrows(out)
     IN /\ tracks2' = IF threw THEN <<>> ELSE hkannoFromText(out)
        /\ pc' = IF threw THEN "threw"
                 ELSE IF pc = "written" THEN "reparsed" ELSE "reread"
  /\ UNCHANGED <<varsHash, varsPage, varsTab, text, hdr, tracks, out, varsSync>>

Next == FromText \/ ToText \/ Reparse

Spec == Init /\ [][Next]_vars

\* ----------------------------------------------- the correlator on two texts
XmlTrack == <<TAB, TagTrackName, "A", "</hkparam>">>
XmlTime == <<TAB, TagTime, "0", ".", "5", "</hkparam>">>
XmlOther == <<"<hkobject>">>
XmlBoth == <<TagTrackName, "A", "</hkparam>", TagTime, "1", "</hkparam>">>

XmlLines == {XmlTrack, XmlTime, XmlOther, XmlBoth}
XmlTexts == {Join(ls, <<LF>>) : ls \in SeqsUpTo(XmlLines, MaxXmlLines)}

MapLines == {LineHeaderA, LineHeaderNull, LineAnn, LineAnnBad}
MapTexts == {Join(ls, <<LF>>) : ls \in SeqsUpTo(MapLines, MaxLines)}

InitMaps ==
  /\ pc = "correlate"
  /\ leftText \in MapTexts
  /\ xmlText \in XmlTexts
  /\ trackLineMap = EmptyMap
  /\ timeLineMap = EmptyMap
  /\ leftRegistered = FALSE
  /\ rightRegistered = FALSE
  /\ event = NoEvent
  /\ rightCalls = <<>>
  /\ DocIdle
  /\ TabIdle
  /\ HashIdle
  /\ PageIdle

\* updateBaseLine(leftText, xmlText)
UpdateBaseLine ==
  /\ pc = "correlate"
  /\ LET maps == buildIndexMaps(leftText, xmlText)
     IN /\ trackLineMap' = maps.trackMap
        /\ timeLineMap' = maps.timeMap
  /\ pc' = "correlated"
  /\ event' = NoEvent
  /\ UNCHANGED <<varsHash, varsPage, varsTab, varsDoc, leftText, xmlText, leftRegistered, rightRegistered, rightCalls>>

NextMaps == UpdateBaseLine

SpecMaps == InitMaps /\ [][NextMaps]_vars

\* ------------------------------------------------- the editors and the cursor
CursorLineSet == {LineHeaderA, LineAnn, LineAnnBad}
CursorTexts == {Join(ls, <<LF>>) : ls \in SeqsUpTo(CursorLineSet, MaxCursorLines)}
CursorXmlTexts == {Join(ls, <<LF>>) : ls \in SeqsUpTo({XmlTrack, XmlTime}, MaxCursorXml)}

InitCursor ==
  /\ pc = "editing"
  /\ leftText \in CursorTexts
  /\ xmlText = <<>>
  /\ trackLineMap = EmptyMap
  /\ timeLineMap = EmptyMap
  /\ leftRegistered = FALSE
  /\ rightRegistered = FALSE
  /\ event = NoEvent
  /\ rightCalls = <<>>
  /\ DocIdle
  /\ TabIdle
  /\ HashIdle
  /\ PageIdle

\* registerLeft: onMount of the left editor
RegisterLeft ==
  /\ pc = "editing"
  /\ ~leftRegistered
  /\ leftRegistered' = TRUE
  /\ event' = NoEvent
  /\ rightCalls' = <<>>
  /\ UNCHANGED <<varsHash, varsPage, varsTab, varsDoc, pc, leftText, xmlText, trackLineMap, timeLineMap, rightRegistered>>

\* registerRight: onMount of the preview editor
RegisterRight ==
  /\ pc = "editing"
  /\ ~rightRegistered
  /\ rightRegistered' = TRUE
  /\ event' = NoEvent
  /\ rightCalls' = <<>>
  /\ UNCHANGED <<varsHash, varsPage, varsTab, varsDoc, pc, leftText, xmlText, trackLineMap, timeLineMap, leftRegistered>>

\* a text with one more line typed at its end, and with its last line deleted
AppendLine(t, l) == IF t = <<>> THEN l ELSE t \o <<LF>> \o l
DropLastLine(t) == LET ls == SplitLF(t) IN Join(SubSeq(ls, 1, Len(ls) - 1), <<LF>>)

\* the user edits the primary text: onChange delivers the new text
EditLeft ==
  /\ pc = "editing"
  /\ leftRegistered
  /\ \/ /\ leftText = <<>> \/ Len(SplitLF(leftText)) < MaxCursorLines
        /\ \E l \in CursorLineSet : leftText' = AppendLine(leftText, l)
     \/ /\ leftText /= <<>>
        /\ leftText' = DropLastLine(leftText)
  /\ event' = NoEvent
  /\ rightCalls' = <<>>
  /\ UNCHANGED <<varsHash, varsPage, varsTab, varsDoc, pc, xmlText, trackLineMap, timeLineMap, leftRegistered,
                 rightRegistered>>

\* updateBaseLine(tab.text, xml) with the xml a preview call returned
RebuildMaps ==
  /\ pc = "editing"
  /\ \E xml \in CursorXmlTexts :
       LET maps == buildIndexMaps(leftText, xml)
       IN /\ trackLineMap' = maps.trackMap
          /\ timeLineMap' = maps.timeMap
  /\ event' = NoEvent
  /\ rightCalls' = <<>>
  /\ UNCHANGED <<varsHash, varsPage, varsTab, varsDoc, pc, leftText, xmlText, leftRegistered, rightRegistered>>

\* the cursor of the left editor moves to a line of its text
CursorMove ==
  /\ pc = "editing"
  /\ leftRegistered
  /\ \E lineNum \in 1..Len(SplitCRLF(leftText)) :
       /\ event' = [kind |-> "cursor", lineNumber |-> lineNum]
       /\ rightCalls' = OnCursorPosition(rightRegistered, leftText, lineNum,
                                         trackLineMap, timeLineMap)
  /\ UNCHANGED <<varsHash, varsPage, varsTab, varsDoc, pc, leftText, xmlText, trackLineMap, timeLineMap,
                 leftRegistered, rightRegistered>>

NextCursor == RegisterLeft \/ RegisterRight \/ EditLeft \/ RebuildMaps \/ CursorMove

SpecCursor == InitCursor /\ [][NextCursor]_vars

\* --------------------------------------------- one tab with its preview
\* texts the user gives the tab, and secondary texts the preview call returns
TextH == LineHeaderA
TextHT == Join(<<LineHeaderA, LineAnn>>, <<LF>>)
EditorTexts == {TextH, TextHT}
PreviewXmls == {XmlTrack, Join(<<XmlTrack, XmlTime>>, <<LF>>)}
ErrText == Some(<<"E", "r", "r", "o", "r">>)

Step(kind, lineNum) == [kind |-> kind, lineNumber |-> lineNum]

\* the sequence q without its i-th element
RemoveAt(q, i) == SubSeq(q, 1, i - 1) \o SubSeq(q, i + 1, Len(q))

\* mutant: the effect cancels the calls still in flight
PreviewEffectCancel(t) == <<[text |-> t.text]>>

\* the effect of SplitEditors on [tab]: a preview call for the tab it was run with
PreviewEffect(t) == Append(previews, [text |-> t.text])

\* the page is mounted with a tab restored from storage; both editors are
\* mounted and the effect has issued the first preview call
InitEditor ==
  /\ pc = "session"
  /\ \E t \in EditorTexts :
       /\ tab = [text |-> t, hdr |-> EditorHdr, hkanno |-> hkannoFromText(t),
                 dirty |-> FALSE, cursorPos |-> 0]
       /\ leftText = t
       /\ previews = <<[text |-> t]>>
  /\ saves = <<>>
  /\ errMsg = Null
  /\ baseLine = NoBaseLine
  /\ xmlText = <<>>
  /\ trackLineMap = EmptyMap
  /\ timeLineMap = EmptyMap
  /\ leftRegistered = TRUE
  /\ rightRegistered = TRUE
  /\ event = NoEvent
  /\ rightCalls = <<>>
  /\ DocIdle
  /\ HashIdle
  /\ PageIdle

\* onChange of the left editor -> onTextChange: the tab gets the new text and
\* is marked dirty; the effect runs for the new tab
EditText ==
  /\ pc = "session"
  /\ Len(previews) < MaxInFlight
  /\ \E val \in EditorTexts :
       /\ val /= leftText
       /\ val /= <<>>
       /\ leftText' = val
       /\ tab' = [tab EXCEPT !.text = val, !.dirty = TRUE]
  /\ previews' = PreviewEffect(tab')
  /\ event' = NoEvent
  /\ rightCalls' = <<>>
  /\ UNCHANGED <<varsHash, varsPage, varsDoc, pc, xmlText, trackLineMap, timeLineMap, leftRegistered,
                 rightRegistered, saves, errMsg, baseLine>>

\* onDidChangeCursorPosition of the left editor: the sync listener, then
\* onCursorChange, which stores the position in the tab; the effect runs for
\* the new tab
LeftCursorMove ==
  /\ pc = "session"
  /\ Len(previews) < MaxInFlight
  /\ \E lineNum \in 1..Len(SplitCRLF(leftText)) :
       /\ rightCalls' = OnCursorPosition(rightRegistered, leftText, lineNum,
                                         trackLineMap, timeLineMap)
       /\ tab' = [tab EXCEPT !.cursorPos = lineNum]
       /\ event' = Step("cursor", lineNum)
  /\ previews' = PreviewEffect(tab')
  /\ UNCHANGED <<varsHash, varsPage, varsDoc, pc, leftText, xmlText, trackLineMap, timeLineMap,
                 leftRegistered, rightRegistered, saves, errMsg, baseLine>>

\* mutant: the maps are built from the text the tab holds when the call returns
PreviewBaseLineCurrent(req, xml) ==
  [called |-> TRUE, leftText |-> tab.text, xmlText |-> xml, xmlOf |-> req.text]

\* the arguments of updateBaseLine(tab.text, xml) in the effect: tab is the
\* tab the effect was run with, xml what the call returned for that tab
PreviewBaseLine(req, xml) ==
  [called |-> TRUE, leftText |-> req.text, xmlText |-> xml, xmlOf |-> req.text]

\* previewHkanno returns xml for the i-th call in flight:
\* setPreviewXml(xml); setErrMsg(null); updateBaseLine(tab.text, xml)
PreviewResolve ==
  /\ pc = "session"
  /\ \E i \in 1..Len(previews) : \E xml \in PreviewXmls :
       LET req == previews[i]
           args == PreviewBaseLine(req, xml)
           maps == buildIndexMaps(args.leftText, args.xmlText)
       IN /\ xmlText' = xml
          /\ errMsg' = Null
          /\ trackLineMap' = maps.trackMap
          /\ timeLineMap' = maps.timeMap
          /\ baseLine' = args
          /\ previews' = RemoveAt(previews, i)
  /\ event' = NoEvent
  /\ rightCalls' = <<>>
  /\ UNCHANGED <<varsHash, varsPage, varsDoc, pc, leftText, leftRegistered, rightRegistered, tab, saves>>

\* previewHkanno rejects for the i-th call in flight:
\* setErrMsg(`${err}`); setPreviewXml('')
PreviewReject ==
  /\ pc = "session"
  /\ \E i \in 1..Len(previews) : previews' = RemoveAt(previews, i)
  /\ errMsg' = ErrText
  /\ xmlText' = <<>>
  /\ event' = Step("previewRejected", 0)
  /\ rightCalls' = <<>>
  /\ UNCHANGED <<varsHash, varsPage, varsDoc, pc, leftText, trackLineMap, timeLineMap, leftRegistered,
                 rightRegistered, tab, saves, baseLine>>

\* saveCurrent(active) up to its await: the text of the tab is parsed and
\* saveHkanno is called with the result
SaveStart ==
  /\ pc = "session"
  /\ Len(saves) < MaxSaves
  /\ saves' = Append(saves, [text |-> tab.text, parsed |-> hkannoFromText(tab.text)])
  /\ event' = NoEvent
  /\ rightCalls' = <<>>
  /\ UNCHANGED <<varsHash, varsPage, varsDoc, pc, leftText, xmlText, trackLineMap, timeLineMap,
                 leftRegistered, rightRegistered, tab, previews, errMsg, baseLine>>

\* saveHkanno returns for the i-th call in flight: the tab is marked clean and
\* stores the parsed model; NOTIFY.success; the effect runs for the new tab
SaveResolve ==
  /\ pc = "session"
  /\ Len(previews) < MaxInFlight
  /\ \E i \in 1..Len(saves) :
       /\ tab' = [tab EXCEPT !.dirty = FALSE, !.hkanno = saves[i].parsed]
       /\ saves' = RemoveAt(saves, i)
  /\ previews' = PreviewEffect(tab')
  /\ event' = Step("saved", 0)
  /\ rightCalls' = <<>>
  /\ UNCHANGED <<varsHash, varsPage, varsDoc, pc, leftText, xmlText, trackLineMap, timeLineMap,
                 leftRegistered, rightRegistered, errMsg, baseLine>>

\* mutant: a rejected save marks the tab clean
SaveRejectClean ==
  /\ pc = "session"
  /\ \E i \in 1..Len(saves) : saves' = RemoveAt(saves, i)
  /\ tab' = [tab EXCEPT !.dirty = FALSE]
  /\ event' = Step("saveRejected", 0)
  /\ rightCalls' = <<>>
  /\ UNCHANGED <<varsHash, varsPage, varsDoc, pc, leftText, xmlText, trackLineMap, timeLineMap,
                 leftRegistered, rightRegistered, previews, errMsg, baseLine>>

\* saveHkanno rejects for the i-th call in flight: NOTIFY.error
SaveReject ==
  /\ pc = "session"
  /\ \E i \in 1..Len(saves) : saves' = RemoveAt(saves, i)
  /\ event' = Step("saveRejected", 0)
  /\ rightCalls' = <<>>
  /\ UNCHANGED <<varsHash, varsPage, varsDoc, pc, leftText, xmlText, trackLineMap, timeLineMap,
                 leftRegistered, rightRegistered, tab, previews, errMsg, baseLine>>

\* mutant: a cursor move in the preview editor is stored in the tab
RightEditorEventSync ==
  /\ pc = "session"
  /\ \E lineNum \in 0..Len(SplitCRLF(xmlText)) :
       /\ event' = Step(IF lineNum = 0 THEN "rightContent" ELSE "rightCursor", lineNum)
       /\ tab' = [tab EXCEPT !.cursorPos = lineNum]
  /\ rightCalls' = <<>>
  /\ UNCHANGED <<varsHash, varsPage, varsDoc, pc, leftText, xmlText, trackLineMap, timeLineMap,
                 leftRegistered, rightRegistered, previews, saves, errMsg, baseLine>>

\* an event of the preview editor, a cursor move to lineNum or (lineNum 0) a
\* change of its content: the editor is read-only and is given no listener
RightEditorEvent ==
  /\ pc = "session"
  /\ \E lineNum \in 0..Len(SplitCRLF(xmlText)) :
       event' = Step(IF lineNum = 0 THEN "rightContent" ELSE "rightCursor", lineNum)
  /\ rightCalls' = <<>>
  /\ UNCHANGED <<varsHash, varsPage, varsDoc, pc, leftText, xmlText, trackLineMap, timeLineMap,
                 leftRegistered, rightRegistered, varsTab>>

NextEditor ==
  \/ EditText
  \/ LeftCursorMove
  \/ PreviewResolve
  \/ PreviewReject
  \/ SaveStart
  \/ SaveResolve
  \/ SaveReject
  \/ RightEditorEvent

SpecEditor == InitEditor /\ [][NextEditor]_vars

\* ------------------------------------------------------ hashing a string
\* code units of the keys: NUL, 'a' and U+FFFF
HashUnits == {0, 97, 65535}
HashKeys == SeqsUpTo(HashUnits, MaxKeyLen)

\* hashDjb2(key) is called: let hash = 5381
InitHash ==
  /\ pc = "hashing"
  /\ key \in HashKeys
  /\ hash = Wide(0, 5381)
  /\ hashI = 0
  /\ DocIdle
  /\ SyncIdle
  /\ TabIdle
  /\ PageIdle

\* one iteration of the for loop
HashStep ==
  /\ pc = "hashing"
  /\ hashI < Len(key)
  /\ hash' = HashIteration(hash, key, hashI)
  /\ hashI' = hashI + 1
  /\ UNCHANGED <<varsDoc, varsSync, varsTab, varsPage, pc, key>>

\* return hash >>> 0
HashReturn ==
  /\ pc = "hashing"
  /\ hashI >= Len(key)
  /\ hash' = ToUint32(hash)
  /\ pc' = "hashed"
  /\ UNCHANGED <<varsDoc, varsSync, varsTab, varsPage, key, hashI>>

NextHash == HashStep \/ HashReturn

SpecHash == InitHash /\ [][NextHash]_vars

\* ------------------------------------------------- the page and its tabs
\* the state of useHkannoEditor (tabs, active) under the handlers of
\* HkannoEditorPage and ClosableTabs, with openFiles and saveCurrent calls in
\* flight; what SplitEditors keeps of a preview is left to SpecEditor
PathA == <<"a", ".", "h", "k", "x">>
PathB == <<"d", ".", "b", ".", "X", "M", "L">>
PathC == <<"c", ".", "t", "x", "t">>
PathLists == {<<PathA>>, <<PathB>>, <<PathA, PathB>>, <<PathC, PathA>>}

\* path.split('.').pop()?.toLowerCase()
Ext(path) == LET pieces == SplitOn(path, {"."}) IN LowerStr(pieces[Len(pieces)])

\* ['hkx', 'xml'].includes(ext ?? '')
Loadable(path) == Ext(path) \in {<<"h", "k", "x">>, <<"x", "m", "l">>}

\* the for loop up to its next await: the paths from the first one that is loaded
RECURSIVE SkipOthers(_)
SkipOthers(paths) ==
  IF paths = <<>> \/ Loadable(Head(paths)) THEN paths ELSE SkipOthers(Tail(paths))

\* the models loadHkanno returns for the two files: animations of one length
\* whose annotation tracks differ
ModelEmpty == Hkanno("#0003", 38, Num(15000000), <<Track(Some(<<"A">>), <<>>)>>)
ModelOne ==
  Hkanno("#0003", 38, Num(15000000),
         <<Track(Some(<<"A">>), <<Annotation(Num(5000000), Some(<<"a">>))>>)>>)
FileOf(path) == IF path = PathA THEN ModelEmpty ELSE ModelOne

\* the texts the user gives a tab: the lines hkannoToText lays out for one of
\* the two models
PageTexts == {hkannoToText(ModelEmpty), hkannoToText(ModelOne)}

\* tabs.length of the openFiles the drop listener holds: the listener is
\* registered once, with the openFiles of the first render
DropLen == 0

\* the state a functional update receives as prev: the latest state, not the
\* state of the render the setter was called from
UpdaterPrev(latest) == latest

\* mutant: no tab is found for the path
FindIndexNone(prev, path) == 0 - 1

\* prev.findIndex((t) => t.inputPath === path), 0-based, -1 when there is none
FindIndex(prev, path) ==
  LET hits == {k \in 1..Len(prev) : prev[k].inputPath = path}
  IN IF hits = {} THEN 0 - 1 ELSE (CHOOSE k \in hits : \A j \in hits : k <= j) - 1

\* the tab openFiles adds for a path; dirty and cursorPos are absent
NewTab(path, hkanno, loaded) ==
  [id |-> path, inputPath |-> path, ptr |-> hkanno.ptr,
   num_original_frames |-> hkanno.num_original_frames, duration |-> hkanno.duration,
   text |-> loaded, hkanno |-> hkanno, dirty |-> FALSE]

\* next[existing] = { ...next[existing], text, ptr, num_original_frames, duration }
Reloaded(t, hkanno, loaded) ==
  [t EXCEPT !.text = loaded, !.ptr = hkanno.ptr,
            !.num_original_frames = hkanno.num_original_frames,
            !.duration = hkanno.duration]

\* prev.map((t, i) => (i === index ? f(t) : t)) with a 0-based index
MapAt(prev, index, f(_)) ==
  [k \in 1..Len(prev) |-> IF k - 1 = index THEN f(prev[k]) ELSE prev[k]]

\* tabs[active] is defined: HkannoTabEditor is rendered
HasActiveTab == active + 1 \in 1..Len(tabs)

InitPage ==
  /\ pc = "page"
  /\ tabs = <<>>
  /\ active = 0
  /\ opens = <<>>
  /\ DocIdle
  /\ SyncIdle
  /\ TabIdle
  /\ HashIdle

\* openFiles(paths) up to its first await, called from the Open File button
\* (tabs.length of the current render) or from a drop (DropLen), with fewer
\* than n calls in flight
OpenFilesUpTo(n) ==
  /\ pc = "page"
  /\ Len(opens) < n
  /\ \E paths \in PathLists : \E len \in {Len(tabs), DropLen} :
       /\ SkipOthers(paths) /= <<>>
       /\ opens' = Append(opens, [paths |-> SkipOthers(paths), len |-> len])
  /\ event' = NoEvent
  /\ UNCHANGED <<varsDoc, varsMount, varsTab, varsHash, pc, tabs, active>>

OpenFiles == OpenFilesUpTo(MaxCalls - Len(saves))

\* the call with its first path done
Advance(i) ==
  LET rest == SkipOthers(Tail(opens[i].paths))
  IN IF rest = <<>> THEN RemoveAt(opens, i) ELSE [opens EXCEPT ![i].paths = rest]

\* loadHkanno returns for the i-th call: setTabs with the updater, which calls
\* setActive(existing) for a path that has a tab, and setActive(() => tabs.length)
\* with the tabs.length of the closure; for a path that has a tab the later of
\* the two setActive calls decides, and which is later depends on when the
\* updater is run
OpenLoaded ==
  /\ pc = "page"
  /\ \E i \in 1..Len(opens) :
       LET path == Head(opens[i].paths)
           hkanno == FileOf(path)
           prev == UpdaterPrev(tabs)
           existing == FindIndex(prev, path)
           loaded == hkannoToText(hkanno)
       IN /\ existing < 0 => Len(prev) < MaxTabs
          /\ tabs' = IF existing >= 0
                     THEN [prev EXCEPT ![existing + 1] = Reloaded(@, hkanno, loaded)]
                     ELSE Append(prev, NewTab(path, hkanno, loaded))
          /\ active' \in IF existing >= 0 THEN {existing, opens[i].len}
                         ELSE {opens[i].len}
          /\ opens' = Advance(i)
          /\ event' = IF existing >= 0 THEN Step("tabUpdated", existing)
                       ELSE Step("tabAdded", Len(prev))
  /\ UNCHANGED <<varsDoc, varsMount, varsTab, varsHash, pc>>

\* loadHkanno rejects for the i-th call: NOTIFY.error, the loop goes on
OpenFailed ==
  /\ pc = "page"
  /\ \E i \in 1..Len(opens) : opens' = Advance(i)
  /\ event' = NoEvent
  /\ UNCHANGED <<varsDoc, varsMount, varsTab, varsHash, pc, tabs, active>>

\* prev.filter((fileTab) => fileTab.id !== id)
WithoutId(prev, id) == SelectSeq(prev, LAMBDA fileTab : fileTab.id /= id)

\* handleClose(id, index) of the tab at index
HandleClose ==
  /\ pc = "page"
  /\ \E index \in 0..(Len(tabs) - 1) :
       /\ tabs' = WithoutId(UpdaterPrev(tabs), tabs[index + 1].id)
       /\ active' = IF active >= index /\ active > 0 THEN active - 1 ELSE active
  /\ event' = NoEvent
  /\ UNCHANGED <<varsDoc, varsMount, varsTab, varsHash, pc, opens>>

\* onChange of Tabs: setActive(v)
SelectTab ==
  /\ pc = "page"
  /\ \E v \in 0..(Len(tabs) - 1) :
       /\ v /= active
       /\ active' = v
  /\ event' = NoEvent
  /\ UNCHANGED <<varsDoc, varsMount, varsTab, varsHash, pc, tabs, opens>>

TextChanged(t, val) == [t EXCEPT !.text = val, !.dirty = TRUE]

\* onTextChange(val) of the mounted editor
OnTextChange ==
  /\ pc = "page"
  /\ HasActiveTab
  /\ \E val \in PageTexts :
       /\ val /= tabs[active + 1].text
       /\ tabs' = MapAt(UpdaterPrev(tabs), active, LAMBDA t : TextChanged(t, val))
  /\ event' = NoEvent
  /\ UNCHANGED <<varsDoc, varsMount, varsTab, varsHash, pc, active, opens>>

Reverted(p) == [p EXCEPT !.text = hkannoToText(p.hkanno)]

\* onRevert
OnRevert ==
  /\ pc = "page"
  /\ HasActiveTab
  /\ tabs' = MapAt(UpdaterPrev(tabs), active, Reverted)
  /\ tabs' /= tabs
  /\ event' = NoEvent
  /\ UNCHANGED <<varsDoc, varsMount, varsTab, varsHash, pc, active, opens>>

\* saveCurrent(active) up to its await
SaveCurrent ==
  /\ pc = "page"
  /\ HasActiveTab
  /\ Len(opens) + Len(saves) < MaxCalls
  /\ LET t == tabs[active + 1]
         parsed == Hkanno(t.ptr, t.num_original_frames, t.duration, hkannoFromText(t.text))
     IN saves' = Append(saves, [index |-> active, inputPath |-> t.inputPath,
                                text |-> t.text, parsed |-> parsed])
  /\ event' = NoEvent
  /\ UNCHANGED <<varsDoc, varsMount, varsHash, varsPage, pc, tab, previews, errMsg, baseLine>>

\* { ...t, dirty: false, hkanno: parsed }
Saved(t, parsed) == [t EXCEPT !.dirty = FALSE, !.hkanno = parsed]

\* saveHkanno returns for the i-th call: the tab at the index the call was
\* made with is marked clean and given the parsed model; NOTIFY.success
SaveCurrentDone ==
  /\ pc = "page"
  /\ \E i \in 1..Len(saves) :
       /\ tabs' = MapAt(UpdaterPrev(tabs), saves[i].index,
                        LAMBDA t : Saved(t, saves[i].parsed))
       /\ saves' = RemoveAt(saves, i)
  /\ event' = NoEvent
  /\ UNCHANGED <<varsDoc, varsMount, varsHash, pc, active, opens, tab, previews, errMsg,
                 baseLine>>

\* saveHkanno rejects for the i-th call: NOTIFY.error
SaveCurrentFailed ==
  /\ pc = "page"
  /\ \E i \in 1..Len(saves) : saves' = RemoveAt(saves, i)
  /\ event' = NoEvent
  /\ UNCHANGED <<varsDoc, varsMount, varsHash, varsPage, pc, tab, previews, errMsg, baseLine>>

NextPage ==
  \/ OpenFiles
  \/ OpenLoaded
  \/ OpenFailed
  \/ HandleClose
  \/ SelectTab
  \/ OnTextChange
  \/ OnRevert
  \/ SaveCurrent
  \/ SaveCurrentDone
  \/ SaveCurrentFailed

SpecPage == InitPage /\ [][NextPage]_vars

\* ---------------------------------------------------------------------------
\* the tab list alone: files are opened, edited, selected and closed, nothing
\* is saved, and up to MaxOpens openFiles calls are in flight together

OpenFilesTogether == OpenFilesUpTo(MaxOpens)

NextTabs ==
  \/ OpenFilesTogether
  \/ OpenLoaded
  \/ OpenFailed
  \/ HandleClose
  \/ SelectTab
  \/ OnTextChange

SpecTabs == InitPage /\ [][NextTabs]_vars

\* ---------------------------------------------------------------------------
\* two tabs and the one editor the page renders for tabs[active]:
\* HkannoTabEditor and SplitEditors are rendered without a key, so the same
\* instance, with its previewXml, errMsg and line maps, serves whichever tab
\* is active, and is unmounted only when tabs[active] is undefined

\* the tab prop of the editor for a tab of the list
TabProp(t) ==
  [text |-> t.text,
   hdr |-> [ptr |-> t.ptr, num_original_frames |-> t.num_original_frames,
            duration |-> t.duration],
   hkanno |-> t.hkanno.annotation_tracks, dirty |-> t.dirty, cursorPos |-> 0]

\* the two tabs restored from storage
StoredTabs ==
  <<NewTab(PathA, ModelEmpty, hkannoToText(ModelEmpty)),
    NewTab(PathB, ModelOne, hkannoToText(ModelOne))>>

\* the page is mounted with two tabs restored from storage and the preview
\* shown; both editors are mounted and the effect has issued the first call
InitSwitch ==
  /\ pc = "session"
  /\ tabs = StoredTabs
  /\ active \in 0..(Len(tabs) - 1)
  /\ opens = <<>>
  /\ tab = TabProp(tabs[active + 1])
  /\ leftText = tab.text
  /\ previews = <<[text |-> tab.text]>>
  /\ saves = <<>>
  /\ errMsg = Null
  /\ baseLine = NoBaseLine
  /\ xmlText = <<>>
  /\ trackLineMap = EmptyMap
  /\ timeLineMap = EmptyMap
  /\ leftRegistered = TRUE
  /\ rightRegistered = TRUE
  /\ event = NoEvent
  /\ rightCalls = <<>>
  /\ DocIdle
  /\ HashIdle

\* the editor after the page rendered the list next with the index v: it is
\* unmounted when next[v] is undefined; otherwise it keeps its state, shows
\* the text of next[v], and its effect runs when the tab it is given changed
Rendered(next, v) ==
  IF v + 1 \in 1..Len(next)
  THEN /\ tab' = TabProp(next[v + 1])
       /\ leftText' = next[v + 1].text
       /\ previews' = IF tab' /= tab THEN PreviewEffect(tab') ELSE previews
       /\ UNCHANGED <<xmlText, errMsg, baseLine, trackLineMap, timeLineMap,
                      leftRegistered, rightRegistered>>
  ELSE /\ tab' = NoTab
       /\ leftText' = <<>>
       /\ previews' = <<>>
       /\ xmlText' = <<>>
       /\ errMsg' = Null
       /\ baseLine' = NoBaseLine
       /\ trackLineMap' = EmptyMap
       /\ timeLineMap' = EmptyMap
       /\ leftRegistered' = FALSE
       /\ rightRegistered' = FALSE

\* onChange of Tabs with the editor mounted: setActive(v)
SwitchTab ==
  /\ pc = "session"
  /\ Len(previews) < MaxInFlight
  /\ \E v \in 0..(Len(tabs) - 1) :
       /\ v /= active
       /\ active' = v
       /\ Rendered(tabs, v)
  /\ event' = Step("selected", 0)
  /\ rightCalls' = <<>>
  /\ UNCHANGED <<varsDoc, varsHash, pc, tabs, opens, saves>>

\* handleClose(id, index) with the editor mounted
CloseTab ==
  /\ pc = "session"
  /\ Len(previews) < MaxInFlight
  /\ \E index \in 0..(Len(tabs) - 1) :
       /\ tabs' = WithoutId(UpdaterPrev(tabs), tabs[index + 1].id)
       /\ active' = IF active >= index /\ active > 0 THEN active - 1 ELSE active
       /\ Rendered(tabs', active')
  /\ event' = Step("closed", 0)
  /\ rightCalls' = <<>>
  /\ UNCHANGED <<varsDoc, varsHash, pc, opens, saves>>

NextSwitch ==
  \/ SwitchTab
  \/ CloseTab
  \/ PreviewResolve
  \/ PreviewReject

SpecSwitch == InitSwitch /\ [][NextSwitch]_vars

\* ------------------------------------------- line structure of a text
RECURSIVE TrimAll(_)
TrimAll(ls) == IF ls = <<>> THEN <<>> ELSE <<Trim(Head(ls))>> \o TrimAll(Tail(ls))

TrimmedLines(t) == TrimAll(SplitLF(t))

LineKind(trimmed) ==
  IF trimmed = <<>> THEN "blank"
  ELSE IF IsHeaderLine(trimmed) THEN "header"
  ELSE IF IsCommentLine(trimmed) THEN "comment"
  ELSE "annotation"

HeaderIdx(t) == LET ls == TrimmedLines(t) IN {i \in 1..Len(ls) : LineKind(ls[i]) = "header"}
AnnIdx(t) == LET ls == TrimmedLines(t) IN {i \in 1..Len(ls) : LineKind(ls[i]) = "annotation"}
OrphanIdx(t) == {i \in AnnIdx(t) : \A h \in HeaderIdx(t) : i < h}

\* 1 when the result starts with the implicit track of the orphan lines
OrphanOffset(t) == IF OrphanIdx(t) = {} THEN 0 ELSE 1

\* index, in the result, of the track an annotation line belongs to:
\* the track of the nearest preceding header line
TrackOfLine(t, i) == OrphanOffset(t) + Cardinality({h \in HeaderIdx(t) : h < i})

\* the part of s after its first character in seps (empty when there is none)
RECURSIVE AfterFirst(_, _)
AfterFirst(s, seps) ==
  IF s = <<>> THEN <<>>
  ELSE IF Head(s) \in seps THEN Tail(s) ELSE AfterFirst(Tail(s), seps)

RECURSIVE FlattenAnns(_)
FlattenAnns(ts) ==
  IF ts = <<>> THEN <<>> ELSE Head(ts).annotations \o FlattenAnns(Tail(ts))

\* the header and annotation lines of a text, trimmed, in order
ContentLines(t) ==
  LET ls == TrimmedLines(t)
  IN SelectSeq(ls, LAMBDA l : LineKind(l) \in {"header", "annotation"})

\* position, among the content lines of a written text, of the header of track k
RECURSIVE HeaderPos(_, _)
HeaderPos(ts, k) ==
  IF k = 1 THEN 1 ELSE HeaderPos(ts, k - 1) + 1 + Len(ts[k - 1].annotations)

\* a number rounded to six decimals, ties away from zero
Round6(t) ==
  IF t.nan THEN NaN
  ELSE LET unit == Pow10(Scale - 6)
           n == ((2 * Abs(t.units) + unit) \div (2 * unit)) * unit
       IN Num(IF t.units < 0 THEN 0 - n ELSE n)

\* exactly six digits follow the only decimal point of tok
HasSixDecimals(tok) ==
  \E p \in 1..Len(tok) :
    /\ tok[p] = "."
    /\ Len(tok) - p = 6
    /\ \A q \in 1..Len(tok) : q /= p => (IsDigit(tok[q]) \/ (q = 1 /\ tok[q] = "-"))
    /\ p > 1

TimeToken(trimmed) == SplitOn(trimmed, {SP, TAB, CR, LF})[1]

\* ------------------------------------------------------------------ claims

\* C1 (as claimed): parsing a text, writing the result and parsing the written
\* text again yields exactly the tracks of the first parse: same tracks, same
\* names, same (time, text) annotations.
RoundTripLaw == pc = "reparsed" => tracks2 = tracks

\* C1 (amended): the second parse has the same number of tracks, the same
\* names, the same number of annotations per track and the same texts, and
\* every time equals the first parse's time rounded to six decimals.
RoundTripRounded ==
  pc = "reparsed" =>
    /\ Len(tracks2) = Len(tracks)
    /\ \A k \in 1..Len(tracks) :
         /\ tracks2[k].track_name = tracks[k].track_name
         /\ Len(tracks2[k].annotations) = Len(tracks[k].annotations)
         /\ \A j \in 1..Len(tracks[k].annotations) :
              /\ tracks2[k].annotations[j].text = tracks[k].annotations[j].text
              /\ tracks2[k].annotations[j].time = Round6(tracks[k].annotations[j].time)

\* C1 witness: a round trip of two tracks in which a time was rounded.
RoundTripWitness ==
  /\ pc = "reparsed"
  /\ Len(tracks) >= 2
  /\ \E k \in 1..Len(tracks) : \E j \in 1..Len(tracks[k].annotations) :
       /\ ~tracks[k].annotations[j].time.nan
       /\ tracks[k].annotations[j].time.units % Pow10(Scale - 6) /= 0
       /\ tracks2[k].annotations[j].time /= tracks[k].annotations[j].time

\* the name or text field f of a model, and g read back from the written line
FieldReadBack(f, g) ==
  IF f.isNull THEN g.isNull
  ELSE (\A p \in 1..Len(f.str) : f.str[p] /= NULL_STR) => g = f

\* C3 (as claimed): a track name, or an annotation text, is null exactly when
\* the whole trimmed value of its field (all that follows the colon of a header
\* line; all that follows the time token of an annotation line) is the
\* sentinel; any other value, the empty one included, is decoded to the
\* trimmed value itself.
SentinelDecoding ==
  pc = "parsed" =>
    LET ls == TrimmedLines(text)
        hs == Ascending(HeaderIdx(text))
        off == OrphanOffset(text)
    IN /\ \A k \in 1..Len(hs) :
            LET v == Trim(AfterFirst(ls[hs[k]], {":"}))
            IN /\ off + k <= Len(tracks)
               /\ tracks[off + k].track_name =
                    IF v = <<NULL_STR>> THEN Null ELSE Some(v)
       /\ \A i \in AnnIdx(text) :
            LET v == Trim(AfterFirst(ls[i], {SP, TAB, CR, LF}))
                k == TrackOfLine(text, i)
                j == Cardinality({a \in AnnIdx(text) : a <= i /\ TrackOfLine(text, a) = k})
            IN tracks[k].annotations[j].text =
                 IF v = <<NULL_STR>> THEN Null ELSE Some(v)

\* C4 (as claimed): a null name or text written by hkannoToText is read back
\* as null, and a non-null name or text without a sentinel character is read
\* back unchanged.
SentinelLaw ==
  pc = "reread" =>
    /\ Len(tracks2) = Len(tracks)
    /\ \A k \in 1..Len(tracks) :
         /\ FieldReadBack(tracks[k].track_name, tracks2[k].track_name)
         /\ Len(tracks2[k].annotations) = Len(tracks[k].annotations)
         /\ \A j \in 1..Len(tracks[k].annotations) :
              FieldReadBack(tracks[k].annotations[j].text, tracks2[k].annotations[j].text)

\* C6: the annotation lines before the first header line, when there are any,
\* make up the first track of the result, whose name is null and whose
\* annotations are exactly those lines in order; the result holds no other
\* track than this one and one per header line.
OrphanRule ==
  pc = "parsed" =>
    LET ls == TrimmedLines(text)
        orphans == Ascending(OrphanIdx(text))
    IN IF orphans /= <<>>
       THEN /\ Len(tracks) = 1 + Cardinality(HeaderIdx(text))
            /\ tracks[1].track_name = Null
            /\ tracks[1].annotations =
                 [k \in 1..Len(orphans) |-> ParseAnnotation(ls[orphans[k]])]
       ELSE Len(tracks) = Cardinality(HeaderIdx(text))

\* C6 witness: an orphan line, then a header line, then an annotation line.
OrphanWitness ==
  /\ pc = "parsed"
  /\ OrphanIdx(text) /= {}
  /\ \E h \in HeaderIdx(text) : \E a \in AnnIdx(text) : h < a
  /\ Len(tracks) = 2

\* C7: every header line yields one track, in order, with the name of that
\* line; a header followed by no annotation line before the next header or
\* the end yields a track with no annotations.
EmptyTrackRule ==
  pc = "parsed" =>
    LET ls == TrimmedLines(text)
        hs == Ascending(HeaderIdx(text))
        off == OrphanOffset(text)
    IN /\ Len(tracks) = off + Len(hs)
       /\ \A k \in 1..Len(hs) :
            LET next == IF k < Len(hs) THEN hs[k + 1] ELSE Len(ls) + 1
            IN /\ tracks[off + k].track_name = HeaderName(ls[hs[k]])
               /\ {a \in AnnIdx(text) : hs[k] < a /\ a < next} = {}
                    => tracks[off + k].annotations = <<>>

\* C7 witness: two header lines with no annotation line after either.
EmptyTrackWitness ==
  /\ pc = "parsed"
  /\ Cardinality(HeaderIdx(text)) >= 2
  /\ AnnIdx(text) = {}
  /\ Len(tracks) >= 2
  /\ tracks[1].track_name /= tracks[2].track_name

\* C8: every track of the result holds, in line order, the annotations of
\* the lines whose nearest preceding header is its own, and the written text
\* holds, in model order, one header line per track followed by one line per
\* annotation, with the track's name and the annotations' texts.
OrderPreservation ==
  /\ pc = "parsed" =>
       LET ls == TrimmedLines(text)
       IN \A k \in 1..Len(tracks) :
            LET own == Ascending({a \in AnnIdx(text) : TrackOfLine(text, a) = k})
            IN tracks[k].annotations = [j \in 1..Len(own) |-> ParseAnnotation(ls[own[j]])]
  /\ pc = "written" =>
       LET cl == ContentLines(out)
       IN /\ Len(cl) = Len(tracks) + Len(FlattenAnns(tracks))
          /\ \A k \in 1..Len(tracks) :
               LET p == HeaderPos(tracks, k)
               IN /\ IsHeaderLine(cl[p])
                  /\ HeaderName(cl[p]) = tracks[k].track_name
                  /\ \A j \in 1..Len(tracks[k].annotations) :
                       /\ ~IsHeaderLine(cl[p + j])
                       /\ ParseAnnotation(cl[p + j]).text = tracks[k].annotations[j].text

\* C8 witness: two tracks, the first with two different annotations, written.
OrderWitness ==
  /\ pc = "written"
  /\ Len(tracks) = 2
  /\ Len(tracks[1].annotations) = 2
  /\ tracks[1].annotations[1] /= tracks[1].annotations[2]

\* C9 (as claimed): every annotation line of a written text shows its time
\* with exactly six digits after the decimal point.
SixDecimalsAlways ==
  pc \in {"written", "opened"} =>
    \A i \in AnnIdx(out) : HasSixDecimals(TimeToken(TrimmedLines(out)[i]))

\* C9 (amended): the annotation lines of a written text are one per annotation
\* in model order; a time that is a number is shown with exactly six digits
\* after the decimal point, and a NaN time is shown as NaN.
SixDecimalsFinite ==
  pc \in {"written", "opened"} =>
    LET ls == TrimmedLines(out)
        idx == Ascending(AnnIdx(out))
        anns == FlattenAnns(tracks)
    IN /\ Len(idx) = Len(anns)
       /\ \A j \in 1..Len(anns) :
            IF anns[j].time.nan
            THEN TimeToken(ls[idx[j]]) = NaNText
            ELSE HasSixDecimals(TimeToken(ls[idx[j]]))

\* C9 witness: a written text with a numeric and a NaN time.
SixDecimalsWitness ==
  /\ pc = "written"
  /\ \E a \in 1..Len(FlattenAnns(tracks)) : FlattenAnns(tracks)[a].time.nan
  /\ \E a \in 1..Len(FlattenAnns(tracks)) :
       /\ ~FlattenAnns(tracks)[a].time.nan
       /\ FlattenAnns(tracks)[a].time.units % Pow10(Scale - 6) /= 0

\* ------------------------------------------------ claims on the correlator
\* lines of the primary text that are header-shaped / time-bearing for the
\* correlator, and lines of the secondary text that carry a tag
LeftHeaderShaped(t) ==
  {i \in 1..Len(SplitCRLF(t)) : IsLeftTrackLine(SplitCRLF(t)[i])}
LeftTimeBearing(t) ==
  {i \in 1..Len(SplitCRLF(t)) : IsLeftTimeLine(SplitCRLF(t)[i])}
XmlTagLines(x, tag) ==
  {i \in 1..Len(SplitCRLF(x)) : HasTag(SplitCRLF(x)[i], tag)}

\* m has min(|L|, |R|) entries and sends the k-th element of L to the k-th of R
PairsKth(m, L, R) ==
  LET ls == Ascending(L)
      rs == Ascending(R)
      n == IF Len(ls) < Len(rs) THEN Len(ls) ELSE Len(rs)
  IN /\ Cardinality(DOMAIN m) = n
     /\ \A k \in 1..n : ls[k] \in DOMAIN m /\ m[ls[k]] = rs[k]

RECURSIVE ExpectedTagKinds(_)
ExpectedTagKinds(ts) ==
  IF ts = <<>> THEN <<>>
  ELSE <<"track">> \o [j \in 1..Len(Head(ts).annotations) |-> "time"]
       \o ExpectedTagKinds(Tail(ts))

\* the secondary text x holds, in model order, one trackName-tag line per track
\* of ts and one time-tag line per annotation
DerivedFrom(x, ts) ==
  LET xl == SplitCRLF(x)
      idx == Ascending(XmlTagLines(x, TagTrackName) \cup XmlTagLines(x, TagTime))
      kinds == [k \in 1..Len(idx) |->
                  IF HasTag(xl[idx[k]], TagTrackName) /\ HasTag(xl[idx[k]], TagTime)
                  THEN "both"
                  ELSE IF HasTag(xl[idx[k]], TagTrackName) THEN "track" ELSE "time"]
  IN kinds = ExpectedTagKinds(ts)

\* C5 (as claimed): when the secondary text is derived from the parsed primary
\* text, the header map sends the header line of the k-th parsed track to the
\* trackName-tag line of the k-th track, and the time map sends every
\* annotation line to the time-tag line of its own annotation.
AlignmentLaw ==
  (pc = "correlated" /\ DerivedFrom(xmlText, hkannoFromText(leftText))) =>
    LET hs == Ascending(HeaderIdx(leftText))
        as == Ascending(AnnIdx(leftText))
        off == OrphanOffset(leftText)
        trackTags == Ascending(XmlTagLines(xmlText, TagTrackName))
        timeTags == Ascending(XmlTagLines(xmlText, TagTime))
    IN /\ \A k \in 1..Len(hs) :
            /\ hs[k] \in DOMAIN trackLineMap
            /\ trackLineMap[hs[k]] = trackTags[off + k]
       /\ \A j \in 1..Len(as) :
            /\ as[j] \in DOMAIN timeLineMap
            /\ timeLineMap[as[j]] = timeTags[j]

\* C10: a cursor move to line L makes the right editor reveal the mapped line
\* and put its cursor there at column 1 when a right editor is registered and
\* L is a header line with an entry in the header map, or L is a time-bearing
\* line with an entry in the time map; otherwise no call is made on the right
\* editor, and a header line never uses the time map.
CursorJump ==
  event.kind = "cursor" =>
    LET L == event.lineNumber
        line == Trim(GetLineContent(leftText, L))
        isHeader == MatchesTrackNameRegex(line)
        isTime == ~isHeader /\ ~parseFloat(FirstToken(line)).nan
    IN IF rightRegistered /\ isHeader /\ L \in DOMAIN trackLineMap
       THEN rightCalls = <<RevealLineInCenter(trackLineMap[L]),
                           SetPosition(trackLineMap[L], 1)>>
       ELSE IF rightRegistered /\ isTime /\ L \in DOMAIN timeLineMap
       THEN rightCalls = <<RevealLineInCenter(timeLineMap[L]),
                           SetPosition(timeLineMap[L], 1)>>
       ELSE rightCalls = <<>>

\* C10 witness: a cursor move to a header line that made the right editor jump
\* while the time map holds an entry for another line.
CursorJumpWitness ==
  /\ event.kind = "cursor"
  /\ MatchesTrackNameRegex(Trim(GetLineContent(leftText, event.lineNumber)))
  /\ event.lineNumber \in DOMAIN trackLineMap
  /\ rightCalls = <<RevealLineInCenter(trackLineMap[event.lineNumber]),
                    SetPosition(trackLineMap[event.lineNumber], 1)>>
  /\ timeLineMap /= EmptyMap

\* the two maps change, or updateBaseLine is called
MapsRebuilt ==
  \/ baseLine' /= baseLine
  \/ trackLineMap' /= trackLineMap
  \/ timeLineMap' /= timeLineMap

\* C11: the maps are rebuilt only in the step in which a preview call in
\* flight returns, from the primary text that call was issued for and the
\* secondary text it returned for that same text, which is the text then
\* shown; never from a primary text paired with the result of another text.
PreviewOrdering ==
  [][MapsRebuilt =>
       \E i \in 1..Len(previews) :
         /\ previews' = RemoveAt(previews, i)
         /\ baseLine'.called
         /\ baseLine'.leftText = previews[i].text
         /\ baseLine'.xmlOf = previews[i].text
         /\ baseLine'.xmlText = xmlText'
         /\ trackLineMap' = buildIndexMaps(previews[i].text, xmlText').trackMap
         /\ timeLineMap' = buildIndexMaps(previews[i].text, xmlText').timeMap]_vars

\* C11 witness: the maps were built for a text the tab no longer holds while
\* the call for the newer text is still in flight.
PreviewOrderingWitness ==
  /\ pc = "session"
  /\ baseLine.called
  /\ baseLine.leftText /= tab.text
  /\ baseLine.leftText = baseLine.xmlOf
  /\ previews /= <<>>
  /\ trackLineMap /= EmptyMap

\* the maps were built from other texts than the two now shown
MapsStale ==
  /\ baseLine.called
  /\ baseLine.leftText /= leftText \/ baseLine.xmlText /= xmlText

\* C12 (as claimed): a cursor move of the primary editor made while the maps
\* are stale causes no call on the secondary editor.
StaleLookupMisses ==
  (pc = "session" /\ event.kind = "cursor" /\ MapsStale) => rightCalls = <<>>

\* C13: the step in which a preview call or a save call rejects leaves the
\* tab (text, ptr, num_original_frames, duration, stored hkanno, dirty flag)
\* as it was; a rejected preview sets the error message and empties the
\* secondary text, a rejected save shows an error notification.
FailureLeavesDocument ==
  [][/\ event'.kind = "previewRejected" =>
          /\ tab' = tab
          /\ errMsg' /= Null
          /\ xmlText' = <<>>
     /\ event'.kind = "saveRejected" =>
          /\ tab' = tab
          /\ Len(saves') < Len(saves)
          /\ UNCHANGED <<errMsg, xmlText>>]_vars

\* C13 witness: a save of an edited tab was rejected after a preview of it
\* had been rejected; the tab is still dirty and holds the first model.
FailureWitness ==
  /\ pc = "session"
  /\ event.kind = "saveRejected"
  /\ errMsg /= Null
  /\ tab.dirty
  /\ tab.hkanno /= hkannoFromText(tab.text)

\* C14 (as claimed): whenever no preview call is in flight, the two maps are
\* those of the primary and the secondary text now shown.
FullRebuild ==
  (pc = "session" /\ previews = <<>>) =>
    /\ trackLineMap = buildIndexMaps(tab.text, xmlText).trackMap
    /\ timeLineMap = buildIndexMaps(tab.text, xmlText).timeMap

\* C15: an event of the secondary editor changes neither the tab (its text
\* and stored cursor position included), nor the content of the primary
\* editor, nor the two maps, nor issues a preview call; calls on the
\* secondary editor are made only by cursor moves of the primary editor.
OneDirectional ==
  [][/\ event'.kind \in {"rightCursor", "rightContent"} =>
          UNCHANGED <<tab, leftText, trackLineMap, timeLineMap, baseLine, previews>>
     /\ rightCalls' /= <<>> => event'.kind = "cursor"]_vars

\* C15 witness: the cursor of the secondary editor moved to its second line
\* while maps exist and the primary cursor stays on the first line.
OneDirectionalWitness ==
  /\ pc = "session"
  /\ event = Step("rightCursor", 2)
  /\ tab.cursorPos = 1
  /\ trackLineMap /= EmptyMap
  /\ timeLineMap /= EmptyMap

\* C16: hkannoFromText raises for no text, and what it returns for a text
\* is an array of at most as many tracks as the text has lines, each with at
\* most as many annotations as the text has lines.
NeverRaises ==
  /\ pc /= "threw"
  /\ pc = "parsed" =>
       /\ Len(tracks) <= Len(SplitLF(text))
       /\ \A k \in 1..Len(tracks) :
            Len(tracks[k].annotations) <= Len(SplitLF(text))

\* C16 witness: a parsed text with a header line of empty value and an
\* annotation line whose time is malformed and whose text is missing.
NeverRaisesWitness ==
  /\ pc = "parsed"
  /\ \E k \in 1..Len(tracks) : tracks[k].track_name = Some(<<>>)
  /\ \E k \in 1..Len(tracks) : \E j \in 1..Len(tracks[k].annotations) :
       /\ tracks[k].annotations[j].time = NaN
       /\ tracks[k].annotations[j].text = Some(<<>>)

\* the sentinel rule: the value v of a field decoded
Decoded(v) == IF v = <<NULL_STR>> THEN Null ELSE Some(v)

\* C17 (as claimed): every header line, whatever the letter case of its
\* keyword and the spaces or tabs around its colon, closes the pending track
\* and starts a track whose name is the whole trimmed value after the colon
\* of the line, decoded by the sentinel rule, also when that value holds a
\* colon: the result has one track per header line, in order, after the
\* implicit track of the orphan lines.
HeaderRule ==
  pc = "parsed" =>
    LET ls == TrimmedLines(text)
        hs == Ascending(HeaderIdx(text))
    IN /\ Len(tracks) = OrphanOffset(text) + Len(hs)
       /\ \A k \in 1..Len(hs) :
            tracks[OrphanOffset(text) + k].track_name =
              Decoded(Trim(AfterFirst(ls[hs[k]], {":"})))

\* the annotation lines of a text, trimmed, in order
AnnotationLinesOf(t) ==
  SelectSeq(TrimmedLines(t), LAMBDA line : LineKind(line) = "annotation")

\* s with every whitespace character replaced by one space
Spaced(s) == [p \in 1..Len(s) |-> IF IsSpace(s[p]) THEN SP ELSE s[p]]

\* C18 (as claimed): the annotations of the result are, in order, those of
\* the annotation lines of the text, and the annotation of a line has the
\* number read from the first whitespace-delimited token of the line as its
\* time and the trimmed remainder of the line, decoded by the sentinel rule,
\* as its text.
AnnotationRule ==
  pc = "parsed" =>
    LET lines == AnnotationLinesOf(text)
        anns == FlattenAnns(tracks)
    IN /\ Len(anns) = Len(lines)
       /\ \A j \in 1..Len(lines) :
            /\ anns[j].time = parseFloat(TimeToken(lines[j]))
            /\ anns[j].text = Decoded(Trim(AfterFirst(lines[j], {SP, TAB, CR, LF})))

\* C18 (amended): the text is the trimmed remainder of the line with every
\* whitespace character, a tab for one, replaced by one space; a run of
\* several spaces inside it is kept as it is.
AnnotationRuleSpaced ==
  pc = "parsed" =>
    LET lines == AnnotationLinesOf(text)
        anns == FlattenAnns(tracks)
    IN /\ Len(anns) = Len(lines)
       /\ \A j \in 1..Len(lines) :
            /\ anns[j].time = parseFloat(TimeToken(lines[j]))
            /\ anns[j].text =
                 Decoded(Trim(Spaced(AfterFirst(lines[j], {SP, TAB, CR, LF}))))

\* C18 witness: a line with two tabs after its time, two spaces and a tab
\* inside its text, parsed.
AnnotationRuleWitness ==
  /\ pc = "parsed"
  /\ \E j \in 1..Len(AnnotationLinesOf(text)) :
       /\ AnnotationLinesOf(text)[j] = Trim(LineAnnLong)
       /\ FlattenAnns(tracks)[j] =
            Annotation(Num(1234567 * Pow10(Scale - 7)),
                       Some(<<"a", SP, SP, "b", SP, "c">>))

\* a blank line, or a line whose first non-whitespace character is '#'
Ignorable(line) == TrimStart(line) = <<>> \/ Head(TrimStart(line)) = "#"

\* the text t without its blank and comment lines
WithoutIgnorable(t) ==
  Join(SelectSeq(SplitLF(t), LAMBDA line : ~Ignorable(line)), <<LF>>)

KeyFrames ==
  <<"n", "u", "m", "O", "r", "i", "g", "i", "n", "a", "l", "F", "r", "a", "m", "e", "s">>
KeyDuration == <<"d", "u", "r", "a", "t", "i", "o", "n">>
KeyTracks ==
  <<"n", "u", "m", "A", "n", "n", "o", "t", "a", "t", "i", "o", "n", "T", "r", "a", "c",
    "k", "s">>
KeyAnnotations ==
  <<"n", "u", "m", "A", "n", "n", "o", "t", "a", "t", "i", "o", "n", "s">>

\* '# key: value'
CommentOf(name, value) == <<"#", SP>> \o name \o <<":", SP>> \o value

\* a name or text, or the sentinel when it is null
ValueOrSentinel(f) == IF f.isNull THEN <<NULL_STR>> ELSE f.str

\* number of lines written before the block of track k
RECURSIVE BlockStart(_, _)
BlockStart(ts, k) ==
  IF k = 1 THEN 3 ELSE BlockStart(ts, k - 1) + 3 + Len(ts[k - 1].annotations)

\* C20 (as claimed): the written text is three comment lines (frames,
\* duration, number of tracks) and then, for each track in model order, a
\* blank line, 'trackName: ' with its name or the sentinel, '# numAnnotations: '
\* with its annotation count, and per annotation in order its time, a space
\* and its text or the sentinel; nothing else, also for a track without
\* annotations.
CanonicalLayout ==
  pc \in {"written", "opened"} =>
    LET ls == SplitLF(out)
        n == Len(tracks)
    IN /\ Len(ls) = BlockStart(tracks, n + 1)
       /\ ls[1] = CommentOf(KeyFrames, Digits(hdr.num_original_frames))
       /\ ls[2] = CommentOf(KeyDuration, NumberToString(hdr.duration))
       /\ ls[3] = CommentOf(KeyTracks, Digits(n))
       /\ \A k \in 1..n :
            LET b == BlockStart(tracks, k)
                anns == tracks[k].annotations
            IN /\ ls[b + 1] = <<>>
               /\ ls[b + 2] = KwTrackName \o <<":", SP>>
                                \o ValueOrSentinel(tracks[k].track_name)
               /\ ls[b + 3] = CommentOf(KeyAnnotations, Digits(Len(anns)))
               /\ \A j \in 1..Len(anns) :
                    ls[b + 3 + j] = toFixed6(anns[j].time) \o <<SP>>
                                      \o ValueOrSentinel(anns[j].text)

\* ------------------------------------------------------ claims on the hash
\* the exclusive or of the low n bits of a and b
RECURSIVE XorRef(_, _, _)
XorRef(a, b, n) ==
  IF n = 0 THEN 0
  ELSE (IF a % 2 = b % 2 THEN 0 ELSE 1) + 2 * XorRef(a \div 2, b \div 2, n - 1)

\* (h * 33) XOR c modulo 2^32 for an unsigned 32-bit h and a code unit c
DjbStep(h, c) ==
  LET low == h.lo * 33
      high == h.hi * 33 + low \div 65536
  IN [hi |-> high % 65536, lo |-> XorRef(low % 65536, c, 16)]

\* the steps from 5381 over the code units of k in order
RECURSIVE DjbRef(_)
DjbRef(k) ==
  IF k = <<>> THEN [hi |-> 0, lo |-> 5381]
  ELSE DjbStep(DjbRef(SubSeq(k, 1, Len(k) - 1)), k[Len(k)])

\* C21: the hash of every string is an unsigned 32-bit integer, equal to the
\* result of starting from 5381 and computing (h * 33) XOR charCode modulo
\* 2^32 for each character in order; the empty string hashes to 5381, and the
\* hash depends on the string alone.
HashIsDjb2 ==
  pc = "hashed" =>
    /\ hash.hi \in 0..65535
    /\ hash.lo \in 0..65535
    /\ hash = DjbRef(key)
    /\ key = <<>> => hash = [hi |-> 0, lo |-> 5381]

\* C21 witness: a key of six code units, U+FFFF among them, whose hash has
\* wrapped around and has its top bit set.
HashWitness ==
  /\ pc = "hashed"
  /\ Len(key) = 6
  /\ \E i \in 1..Len(key) : key[i] = 65535
  /\ hash.hi >= 32768

\* ------------------------------------------ claims on line classification
\* C24 (as claimed): for every line of the primary text, buildIndexMaps counts
\* the line as a header line exactly when hkannoFromText treats it as a header
\* line, and as a time-bearing line exactly when hkannoFromText treats it as
\* an annotation line; blank and comment lines are counted as neither.
SameClassification ==
  pc = "correlated" =>
    LET leftLines == SplitCRLF(leftText)
        parsed == TrimmedLines(leftText)
    IN \A i \in 1..Len(leftLines) :
         /\ IsLeftTrackLine(leftLines[i]) <=> LineKind(parsed[i]) = "header"
         /\ (~IsLeftTrackLine(leftLines[i]) /\ IsLeftTimeLine(leftLines[i]))
              <=> LineKind(parsed[i]) = "annotation"

\* how the cursor listener classifies a line of the primary editor
ListenerKind(line) ==
  IF MatchesTrackNameRegex(Trim(line)) THEN "header"
  ELSE IF ~parseFloat(FirstToken(Trim(line))).nan THEN "time"
  ELSE "neither"

\* how hkannoFromText classifies the same line
ParserKind(line) ==
  CASE LineKind(Trim(line)) = "header" -> "header"
    [] LineKind(Trim(line)) = "annotation" -> "time"
    [] OTHER -> "neither"

\* C25 (as claimed): on a cursor move the listener classifies the current
\* primary line as header, time-bearing or neither exactly as hkannoFromText
\* classifies it as header line, annotation line or comment/blank line, and
\* looks the line up in the map of that class only.
ListenerClassification ==
  event.kind = "cursor" =>
    LET line == GetLineContent(leftText, event.lineNumber)
    IN /\ ListenerKind(line) = ParserKind(line)
       /\ rightCalls /= <<>> => ParserKind(line) /= "neither"

\* ------------------------------------------------ claims on the preview race
\* C26: a step that changes the tab, an edit of its text for one, leaves every
\* preview call in flight where it is and adds the call for the new tab
\* behind them, and the step in which a call issued for an older text than the tab
\* now holds returns puts the secondary text it returned and the two maps
\* built from that older text in place, while the primary editor shows the
\* newer text.
PreviewRace ==
  [][/\ tab' /= tab => previews' = Append(previews, [text |-> tab'.text])
     /\ \A i \in 1..Len(previews) :
          (/\ previews' = RemoveAt(previews, i)
           /\ event'.kind /= "previewRejected"
           /\ previews[i].text /= tab.text)
          => /\ xmlText' = baseLine'.xmlText
             /\ baseLine'.leftText = previews[i].text
             /\ trackLineMap' = buildIndexMaps(previews[i].text, xmlText').trackMap
             /\ timeLineMap' = buildIndexMaps(previews[i].text, xmlText').timeMap
             /\ leftText' = tab.text
             /\ tab' = tab]_vars

\* C26 witness: every call has returned, the one for the text the tab holds
\* before the one for the older text: the time map built from the older text
\* has an entry, the map of the text now shown has none.
PreviewRaceWitness ==
  /\ pc = "session"
  /\ previews = <<>>
  /\ errMsg = Null
  /\ tab.text = TextH
  /\ leftText = TextH
  /\ baseLine.leftText = TextHT
  /\ timeLineMap /= EmptyMap
  /\ buildIndexMaps(tab.text, xmlText).timeMap = EmptyMap

\* --------------------------------------------- claims on the shape of maps
\* the number of lines of a text: one more than its line feeds
LineCount(t) == 1 + Cardinality({p \in 1..Len(t) : t[p] = LF})

\* m sends a larger key to a larger value, its keys are line numbers of a text
\* of n lines and its values line numbers of a text of k lines
OrderPreservingInto(m, n, k) ==
  /\ \A a \in DOMAIN m : \A b \in DOMAIN m : a < b => m[a] < m[b]
  /\ \A a \in DOMAIN m : a \in 1..n /\ m[a] \in 1..k

\* C30: each of the two maps built from two texts is strictly order
\* preserving, has its keys among the line numbers of the primary text and
\* its values among the line numbers of the secondary text, and no primary
\* line number is a key of both maps.
MapsWellFormed ==
  pc = "correlated" =>
    /\ OrderPreservingInto(trackLineMap, LineCount(leftText), LineCount(xmlText))
    /\ OrderPreservingInto(timeLineMap, LineCount(leftText), LineCount(xmlText))
    /\ DOMAIN trackLineMap \cap DOMAIN timeLineMap = {}

\* C30 witness: a header map of two entries beside a time map of one entry.
MapsWellFormedWitness ==
  /\ pc = "correlated"
  /\ Cardinality(DOMAIN trackLineMap) = 2
  /\ Cardinality(DOMAIN timeLineMap) = 1


\* ---------------------------------------------------------------------------
\* C28: whenever the tab list is not empty, the active index is the index of
\* a tab (0 <= active < tabs.length), so an open document is displayed
ActiveIndexValid == tabs /= <<>> => active \in 0..(Len(tabs) - 1)


\* ---------------------------------------------------------------------------
\* C29: no two tabs have the same inputPath or the same id, whatever the
\* interleaving of openFiles calls and closes; a loaded path that has a tab
\* replaces the text, ptr, num_original_frames and duration of that tab and
\* leaves the list otherwise as it was, and a loaded path without a tab adds one
\* tab for it at the end
UniquePaths(list) ==
  \A i, j \in 1..Len(list) :
    i /= j => list[i].inputPath /= list[j].inputPath /\ list[i].id /= list[j].id

UpdatedInPlace(t, hkanno) ==
  [id |-> t.id, inputPath |-> t.inputPath, hkanno |-> t.hkanno, dirty |-> t.dirty,
   text |-> hkannoToText(hkanno), ptr |-> hkanno.ptr,
   num_original_frames |-> hkanno.num_original_frames, duration |-> hkanno.duration]

HkannoReadOnly == \A k \in 1..Len(tabs) : tabs[k].hkanno = FileOf(tabs[k].inputPath)


\* ---------------------------------------------------------------------------
\* C27: when a saveCurrent call completes and marks a tab clean, that tab is
\* the tab whose text the call sent to saveHkanno, and the text it holds is the
\* text that was sent, whatever was edited, closed or opened in between
CleanMeansSaved ==
  [][\A i \in 1..Len(saves) : \A k \in 1..Len(tabs) :
       (/\ saves' = RemoveAt(saves, i)
        /\ Len(tabs') = Len(tabs)
        /\ tabs[k].dirty = TRUE
        /\ tabs'[k].dirty = FALSE)
       => /\ tabs'[k].inputPath = saves[i].inputPath
          /\ tabs'[k].text = saves[i].text]_vars


\* ---------------------------------------------------------------------------
\* C22: while a tab is active, the secondary text the editor shows and the
\* line maps it jumps by were built from that tab's own text: no response to a
\* preview call made for a tab that was closed or left is applied to, and no
\* secondary text or map of such a tab is kept for, the tab that is active now
NoCrossDocumentState ==
  (pc = "session" /\ HasActiveTab /\ baseLine.called) =>
    /\ baseLine.leftText = tabs[active + 1].text
    /\ xmlText \in {<<>>, baseLine.xmlText}

============================================================================
